---- MODULE Spec2Model ----
(***************************************************************************)
(* A model of the photovoltaic calculation pipeline of esolmet_explorer:   *)
(* src/utils/pv_calc.py (the numeric pipeline) as driven by the reactive   *)
(* handlers of src/components/pv_calc_server.py over the catalogs of       *)
(* src/components/pv_calc_ui.py.                                           *)
(*                                                                         *)
(* Numbers.  Every float of the program is a fixed-point number with three *)
(* decimals, held as an integer number of thousandths (1000 W/m2 is        *)
(* 1000000).  NaN and inf only arise in the scalar results of modules(),   *)
(* which are therefore tagged records (Fin, NaN, Inf).  A resampled series *)
(* holds NaN in an empty bin: the bin lies in lo..hi and outside DOMAIN v. *)
(*                                                                         *)
(* Time.  A timestamp is the number of sampling slots since the start of   *)
(* the year; the calendar has MonthsPerYear months of DaysPerMonth days of *)
(* HoursPerDay hours of SlotsPerHour slots.                                *)
(***************************************************************************)
EXTENDS Integers, Sequences, FiniteSets, TLC

\* ---------------------------------------------------------------- bounds
DaysPerMonth == 2
SlotsPerHour == 2
MaxEdits == 1

\* ------------------------------------------------------ program constants
HoursPerDay == 24
MonthsPerYear == 12

\* ------------------------------------------------------------- arithmetic
Abs(x) == IF x < 0 THEN -x ELSE x
Max(a, b) == IF a >= b THEN a ELSE b
Min(a, b) == IF a <= b THEN a ELSE b

\* The integer nearest to n/d (d > 0), ties to the even one: numpy's round.
ExactRound(n, d) ==
    LET q == n \div d
        r == n - q * d
    IN  IF 2 * r < d THEN q
        ELSE IF 2 * r > d THEN q + 1
        ELSE IF q % 2 = 0 THEN q ELSE q + 1

\* round(x, 2) of a fixed-point x: the nearest multiple of 0.01.
Round2(x) == ExactRound(x, 10) * 10

\* The sum of f over lo..hi restricted to DOMAIN f (pandas sums skip NaN, and
\* the sum of nothing is 0).
RECURSIVE SumIn(_, _, _, _)
SumIn(f, dom, lo, hi) ==
    IF lo > hi THEN 0
    ELSE IF lo = hi THEN (IF lo \in dom THEN f[lo] ELSE 0)
    ELSE LET mid == (lo + hi) \div 2
         IN  SumIn(f, dom, lo, mid) + SumIn(f, dom, mid + 1, hi)
SumFn(f, lo, hi) == SumIn(f, DOMAIN f, lo, hi)

\* The sum of a sequence of integers.
RECURSIVE SumSeq(_)
SumSeq(s) == IF s = <<>> THEN 0 ELSE Head(s) + SumSeq(Tail(s))

\* --------------------------------------------------------------- calendar
TS(m, d, h, s) == ((m * DaysPerMonth + d) * HoursPerDay + h) * SlotsPerHour + s
HourBin(ts) == ts \div SlotsPerHour
DayBin(hb) == hb \div HoursPerDay
MonthBin(db) == db \div DaysPerMonth
HourOfDay(hb) == hb % HoursPerDay
DaysPerYear == MonthsPerYear * DaysPerMonth

\* ---------------------------------------------- the trigonometry stand-in
\* cos of an angle given in tenths of a degree, in percent: a parabola on each
\* quadrant (100 at 0, 0 at 90, -100 at 180).
CosPct(a) ==
    LET x == a % 3600
        y == IF x > 1800 THEN 3600 - x ELSE x
    IN  IF y <= 900 THEN 100 - (y * y) \div 8100
        ELSE (((1800 - y) * (1800 - y)) \div 8100) - 100
SinPct(a) == CosPct(a - 900)

\* ------------------------------------------------------------------- site
\* load_settings() supplies the station's coordinates (tenths of a degree).
Site == [lat |-> 194, lon |-> -992]

\* ------------------------------------------------- external library: pvlib
\* Location(lat, lon).get_solarposition(index): the sun's zenith and azimuth
\* (tenths of a degree) at an hourly bin.  A stand-in for the library: the
\* hour angle moves 15 degrees an hour, the zenith at noon is the latitude.
get_solarposition(lat, lon, ts) ==
    LET h  == HourOfDay(HourBin(ts))
        ha == Abs(h - 12) * 150
    IN  [zenith  |-> Max(ha, Abs(lat)),
         azimuth |-> IF h < 12 THEN 900 ELSE IF h = 12 THEN 1800 ELSE 2700]

\* pvlib.irradiance.get_total_irradiance with its default isotropic sky and
\* albedo 0.25: the beam projected on the plane (never negative), the sky
\* diffuse dhi (1 + cos tilt)/2 and the ground diffuse ghi 0.25 (1 - cos tilt)/2.
get_total_irradiance(surface_tilt, surface_azimuth, dni, ghi, dhi, solpos) ==
    LET ct   == CosPct(surface_tilt)
        proj == (ct * CosPct(solpos.zenith)
                 + (SinPct(surface_tilt) * SinPct(solpos.zenith)
                    * CosPct(solpos.azimuth - surface_azimuth)) \div 100) \div 100
        direct  == Max((dni * proj) \div 100, 0)
        diffuse == (dhi * (100 + ct)) \div 200 + (ghi * (100 - ct)) \div 800
    IN  [poa_global |-> direct + diffuse, poa_direct |-> direct,
         poa_diffuse |-> diffuse]

\* ----------------------------------------------------- the weather table
\* One record of the table "lecturas" after the pivot: the hour and slot fix
\* the values of a profile.
WeatherRow(prof, h, s) ==
    LET day == h > 6 /\ h < 18
    IN  CASE prof = "clear" ->
               LET dni == IF day THEN 800000 + 10000 * s ELSE 0
                   dhi == IF day THEN 100000 + 7000 * s ELSE 0
               IN  [ghi |-> (dni * CosPct(Max(Abs(h - 12) * 150, Abs(Site.lat)))) \div 100 + dhi,
                    dni |-> dni, dhi |-> dhi, tdb |-> 20 + s, ws |-> 1]
          [] prof = "flat" ->
               [ghi |-> 1000000, dni |-> 0, dhi |-> 1000000, tdb |-> 25, ws |-> 1]
          [] prof = "over" ->
               [ghi |-> 1200000, dni |-> 0, dhi |-> 1200000, tdb |-> 25, ws |-> 2]
          [] OTHER ->
               [ghi |-> 0, dni |-> 0, dhi |-> 0, tdb |-> 10, ws |-> 0]

\* A table: its index (ascending timestamps, lo and hi its ends) and its rows.
WeatherTable(c) ==
    LET idx == {TS(m, d, h, s) : m \in c.months, d \in c.days \cap (0..(DaysPerMonth - 1)),
                                 h \in c.hours, s \in c.slots \cap (0..(SlotsPerHour - 1))}
        mlo == CHOOSE m \in c.months : \A k \in c.months : m <= k
        mhi == CHOOSE m \in c.months : \A k \in c.months : m >= k
        dlo == CHOOSE m \in c.days : \A k \in c.days : m <= k
        dset == c.days \cap (0..(DaysPerMonth - 1))
        dhi == CHOOSE m \in dset : \A k \in dset : m >= k
        hlo == CHOOSE m \in c.hours : \A k \in c.hours : m <= k
        hhi == CHOOSE m \in c.hours : \A k \in c.hours : m >= k
        sset == c.slots \cap (0..(SlotsPerHour - 1))
        shi == CHOOSE m \in sset : \A k \in sset : m >= k
    IN  [lo  |-> TS(mlo, dlo, hlo, 0),
         hi  |-> TS(mhi, dhi, hhi, shi),
         row |-> [ts \in idx |->
                    WeatherRow(c.prof, HourOfDay(HourBin(ts)), ts % SlotsPerHour)]]

AllMonths == 0..(MonthsPerYear - 1)
AllDays == 0..(DaysPerMonth - 1)
AllHours == 0..(HoursPerDay - 1)
AllSlots == 0..(SlotsPerHour - 1)

\* The tables the model draws from: a full year, the first quarter, a table
\* with February missing, a day of 1000 W/m2 around the clock, the same day at
\* 1200 W/m2, and a single dark record.
TableConfigs ==
    { [months |-> AllMonths, days |-> AllDays, hours |-> {12}, slots |-> {0}, prof |-> "clear"],
      [months |-> {0, 1, 2}, days |-> AllDays, hours |-> {10, 12}, slots |-> AllSlots, prof |-> "clear"],
      [months |-> {0, 2}, days |-> {0}, hours |-> {11, 12}, slots |-> AllSlots, prof |-> "clear"],
      [months |-> {0}, days |-> {0}, hours |-> AllHours, slots |-> {0}, prof |-> "flat"],
      [months |-> {0}, days |-> {0}, hours |-> AllHours, slots |-> {0}, prof |-> "over"],
      [months |-> {2}, days |-> {0}, hours |-> {12}, slots |-> {0}, prof |-> "dark"] }

WeatherTables == { WeatherTable(c) : c \in TableConfigs }

\* ------------------------------------------------------ pandas resampling
\* t.row[ts][field] as a series, .resample("h").mean(): one bin per hour from
\* the first to the last timestamp; the mean of an hour without records is NaN.
HourlyMean(t, field) ==
    LET slotsOf(b) == {ts \in (b * SlotsPerHour)..(b * SlotsPerHour + SlotsPerHour - 1) :
                         ts \in DOMAIN t.row}
        total(b) == SumSeq([i \in 1..SlotsPerHour |->
                        IF (b * SlotsPerHour + i - 1) \in DOMAIN t.row
                        THEN t.row[b * SlotsPerHour + i - 1][field] ELSE 0])
    IN  [lo |-> HourBin(t.lo), hi |-> HourBin(t.hi),
         v  |-> [b \in {HourBin(ts) : ts \in DOMAIN t.row} |->
                   total(b) \div Cardinality(slotsOf(b))] @@ <<>>]

\* hourly.resample("D").sum(): one bin per day from the first to the last hour;
\* NaN hours are skipped, and a day with no value at all sums to 0.
DailySum(hourly) ==
    [lo |-> DayBin(hourly.lo), hi |-> DayBin(hourly.hi),
     v  |-> [d \in DayBin(hourly.lo)..DayBin(hourly.hi) |->
               SumFn(hourly.v, d * HoursPerDay, d * HoursPerDay + HoursPerDay - 1)] @@ <<>>]

\* series / 1000 (every value of the series).
Div1000(series) ==
    [lo |-> series.lo, hi |-> series.hi,
     v  |-> [b \in DOMAIN series.v |-> series.v[b] \div 1000] @@ <<>>]

\* daily.resample("ME").mean(): one bin per month from the first to the last
\* day, the mean of the days of the series that fall in the month.
MonthlyMean(daily) ==
    [lo |-> MonthBin(daily.lo), hi |-> MonthBin(daily.hi),
     v  |-> [m \in MonthBin(daily.lo)..MonthBin(daily.hi) |->
               LET a == Max(m * DaysPerMonth, daily.lo)
                   b == Min(m * DaysPerMonth + DaysPerMonth - 1, daily.hi)
               IN  SumFn(daily.v, a, b) \div (b - a + 1)] @@ <<>>]

\* MonthlySum with each month ending a day early: the last day's hours are lost.
MonthlySumShort(hourly) ==
    [lo |-> MonthBin(DayBin(hourly.lo)), hi |-> MonthBin(DayBin(hourly.hi)),
     v  |-> [m \in MonthBin(DayBin(hourly.lo))..MonthBin(DayBin(hourly.hi)) |->
               SumFn(hourly.v, m * DaysPerMonth * HoursPerDay,
                     ((m + 1) * DaysPerMonth - 1) * HoursPerDay - 1)] @@ <<>>]

\* hourly.resample("ME").sum(): the sum of the hours of each month.
MonthlySum(hourly) ==
    [lo |-> MonthBin(DayBin(hourly.lo)), hi |-> MonthBin(DayBin(hourly.hi)),
     v  |-> [m \in MonthBin(DayBin(hourly.lo))..MonthBin(DayBin(hourly.hi)) |->
               SumFn(hourly.v, m * DaysPerMonth * HoursPerDay,
                     (m + 1) * DaysPerMonth * HoursPerDay - 1)] @@ <<>>]

\* round(series, 2).
RoundSeries2(series) ==
    [lo |-> series.lo, hi |-> series.hi,
     v  |-> [b \in DOMAIN series.v |-> Round2(series.v[b])] @@ <<>>]

\* --------------------------------------------------------- irradiance_poa
irradiance_poa(t, lat, lon, surface_tilt, surface_azimuth) ==
    [lo |-> t.lo, hi |-> t.hi,
     row |-> [ts \in DOMAIN t.row |->
                get_total_irradiance(surface_tilt, surface_azimuth, t.row[ts].dni,
                                     t.row[ts].ghi, t.row[ts].dhi,
                                     get_solarposition(lat, lon, ts))] @@ <<>>]

\* --------------------------------------------------------------- hsp_calc
\* A tilt value as Python holds it: v tenths of a degree, int or float.  The
\* f-string f"{tilt}" writes an int as "15" and a float as "15.0", so the label
\* of a row is the pair (v, float).
TiltInt(deg) == [v |-> deg * 10, float |-> FALSE]
\* int - int is an int, float - int a float.
TiltPlus(t, deg) == [v |-> t.v + deg * 10, float |-> t.float]
Label(t) == <<t.v, t.float>>

\* tilts = [0, surface_tilt, surface_tilt-15, surface_tilt+15, 90]
tilts(surface_tilt) ==
    <<TiltInt(0), surface_tilt, TiltPlus(surface_tilt, -15),
      TiltPlus(surface_tilt, 15), TiltInt(90)>>

\* A Python dict: the sequence of its (key, value) pairs in insertion order.
\* d[k] = val replaces the value of a key already there, in its place.
DictSet(d, k, val) ==
    IF \E i \in 1..Len(d) : d[i].key = k
    THEN [i \in 1..Len(d) |-> IF d[i].key = k THEN [key |-> k, val |-> val] ELSE d[i]]
    ELSE Append(d, [key |-> k, val |-> val])

\* hsp_avg_m without the division by 1000: the daily sums stay in Wh/m2.
hsp_avg_m_wh(t, lat, lon, tilt, surface_azimuth) ==
    MonthlyMean(DailySum(HourlyMean(irradiance_poa(t, lat, lon, tilt.v, surface_azimuth),
                                    "poa_global")))

\* The body of the loop for one tilt: the monthly mean of the daily HSP.
hsp_avg_m(t, lat, lon, tilt, surface_azimuth) ==
    LET irradiance == irradiance_poa(t, lat, lon, tilt.v, surface_azimuth)
        ghi_hour   == HourlyMean(irradiance, "poa_global")
        hsp_d      == Div1000(DailySum(ghi_hour))
    IN  MonthlyMean(hsp_d)

RECURSIVE hsp_loop(_, _, _, _, _, _)
hsp_loop(hsp_dict, ts, t, lat, lon, surface_azimuth) ==
    IF ts = <<>> THEN hsp_dict
    ELSE hsp_loop(DictSet(hsp_dict, Label(Head(ts)),
                          RoundSeries2(hsp_avg_m(t, lat, lon, Head(ts), surface_azimuth))),
                  Tail(ts), t, lat, lon, surface_azimuth)

MonthNames ==
    <<"January", "February", "March", "April", "May", "June", "July", "August",
      "September", "October", "November", "December">>

\* pd.DataFrame(hsp_dict).T with the month names as columns and the row mean
\* as the column "Average".
hsp_frame(hsp_dict) ==
    LET mlo == hsp_dict[1].val.lo
        mhi == hsp_dict[1].val.hi
    IN  [index   |-> [i \in 1..Len(hsp_dict) |-> hsp_dict[i].key],
         columns |-> [j \in 1..(mhi - mlo + 1) |-> MonthNames[mlo + j]] \o <<"Average">>,
         cell    |-> [i \in 1..Len(hsp_dict) |->
                        [j \in 1..(mhi - mlo + 1) |-> hsp_dict[i].val.v[mlo + j - 1]]
                        \o <<Round2(ExactRound(SumFn(hsp_dict[i].val.v, mlo, mhi) * 10,
                                               mhi - mlo + 1) \div 10)>>]]

hsp_calc(t, lat, lon, surface_tilt, surface_azimuth) ==
    hsp_frame(hsp_loop(<<>>, tilts(surface_tilt), t, lat, lon, surface_azimuth))

\* ---------------------------------------------------------------- catalogs
modules_pv ==
    [k \in {"JA Solar 550W Mono", "Canadian Solar 500W Poly", "Longi 450W Mono",
            "Trina Solar 410W Bifacial"} |->
       CASE k = "JA Solar 550W Mono"       -> [pdc0 |-> 550, gamma_pdc |-> -40]
         [] k = "Canadian Solar 500W Poly" -> [pdc0 |-> 500, gamma_pdc |-> -42]
         [] k = "Longi 450W Mono"          -> [pdc0 |-> 450, gamma_pdc |-> -39]
         [] OTHER                          -> [pdc0 |-> 410, gamma_pdc |-> -38]]

assembly_options ==
    [k \in {"Modulo bifacial o vidrio-vidrio en estructura abierta",
            "Modulo monocristalino/policristalino en rack abierto",
            "Modulo vidrio-vidrio montado sobre techo",
            "Modulo estandar montado sobre techo",
            "Modulo en estructura con aislamiento"} |->
       CASE k = "Modulo bifacial o vidrio-vidrio en estructura abierta" -> "open_rack_glass_glass"
         [] k = "Modulo monocristalino/policristalino en rack abierto"  -> "open_rack_glass_polymer"
         [] k = "Modulo vidrio-vidrio montado sobre techo"              -> "roof_mount_glass_glass"
         [] k = "Modulo estandar montado sobre techo"                   -> "roof_mount_glass_polymer"
         [] OTHER                                                       -> "insulated_back_glass_polymer"]

\* The inverter's efficiency in percent.
inverters ==
    [k \in {"Inversor A (96%)", "Inversor B (98%)"} |->
       IF k = "Inversor A (96%)" THEN 96 ELSE 98]

\* pvlib.temperature.TEMPERATURE_MODEL_PARAMETERS['sapm']: the four mountings
\* the library knows, each with the cell's rise over the air (degrees at
\* 1000 W/m2 in still air) and what a m/s of wind takes off it.
TEMPERATURE_MODEL_PARAMETERS ==
    [k \in {"open_rack_glass_glass", "close_mount_glass_glass",
            "open_rack_glass_polymer", "insulated_back_glass_polymer"} |->
       CASE k = "open_rack_glass_glass"   -> [rise |-> 34, wind |-> 2]
         [] k = "close_mount_glass_glass" -> [rise |-> 52, wind |-> 3]
         [] k = "open_rack_glass_polymer" -> [rise |-> 31, wind |-> 2]
         [] OTHER                         -> [rise |-> 60, wind |-> 4]]

\* pvlib.temperature.sapm_cell: the cell's temperature (thousandths of a degree).
sapm_cell(poa_global, temp_air, wind_speed, temp_params) ==
    temp_air * 1000
    + (poa_global \div 1000) * Max(temp_params.rise - temp_params.wind * wind_speed, 0)

\* pvlib.pvsystem.pvwatts_dc: pdc0 g/1000 (1 + gamma_pdc (T - 25)); gamma_pdc is
\* held in units of 0.0001 per degree.
pvwatts_dc(g_poa_effective, temp_cell, pdc0, gamma_pdc) ==
    LET base == (g_poa_effective * pdc0) \div 1000
    IN  base + ((base \div 1000) * ((gamma_pdc * (temp_cell - 25000)) \div 1000)) \div 10

\* ------------------------------------------------------------- power_calc
\* A DataFrame name bound by a statement: the table it holds, and whether the
\* name is bound to the caller's object (shared) or to a new object.
SameObject(frame) == [shared |-> TRUE, table |-> frame]

\* irradiance[["poa_global", "poa_direct", "poa_diffuse"]].copy(): a new
\* object holding the three columns.
SelectCopy(frame) ==
    [shared |-> FALSE,
     table  |-> [lo |-> frame.lo, hi |-> frame.hi,
                 row |-> [ts \in DOMAIN frame.row |->
                            [poa_global  |-> frame.row[ts].poa_global,
                             poa_direct  |-> frame.row[ts].poa_direct,
                             poa_diffuse |-> frame.row[ts].poa_diffuse]] @@ <<>>]]

\* frame["ac_power"] = ac_power: the column is written into the object.
SetAcPower(table, ac_power) ==
    [lo |-> table.lo, hi |-> table.hi,
     row |-> [ts \in DOMAIN table.row |->
                [poa_global  |-> table.row[ts].poa_global,
                 poa_direct  |-> table.row[ts].poa_direct,
                 poa_diffuse |-> table.row[ts].poa_diffuse,
                 ac_power    |-> ac_power[ts]]] @@ <<>>]

\* The value power_calc returns, or the KeyError of the lookup of the mounting;
\* irradiance is the caller's table as the call leaves it.
power_calc(t, irradiance, assembly, pdc0, gamma_pdc, inv_eff) ==
    IF assembly \notin DOMAIN TEMPERATURE_MODEL_PARAMETERS
    THEN [status |-> "KeyError"]
    ELSE
    LET temp_params == TEMPERATURE_MODEL_PARAMETERS[assembly]
        ac(ts) ==
            LET poa_global  == irradiance.row[ts].poa_global
                module_temp == sapm_cell(poa_global, t.row[ts].tdb, t.row[ts].ws, temp_params)
                dc_power    == pvwatts_dc(poa_global, module_temp, pdc0, gamma_pdc)
            IN  (dc_power * inv_eff) \div 100
        ac_power == [ts \in DOMAIN irradiance.row |-> ac(ts)] @@ <<>>
        bound == SelectCopy(irradiance)
        df_poa_power == SetAcPower(bound.table, ac_power)
    IN  [status   |-> "ok",
         ac_power |-> [lo |-> irradiance.lo, hi |-> irradiance.hi,
                       row |-> [ts \in DOMAIN ac_power |-> [ac_power |-> ac_power[ts]]] @@ <<>>],
         df_poa_power |-> df_poa_power,
         irradiance |-> IF bound.shared THEN df_poa_power ELSE irradiance]

\* ---------------------------------------------------------------- modules
\* A numpy float64: finite (x thousandths), NaN or inf.
Fin(x) == [k |-> "fin", x |-> x]
NaN == [k |-> "nan", x |-> 0]
Inf == [k |-> "inf", x |-> 0]

\* num_pv_of rounding up instead of to the nearest.
num_pv_ceil(goal_year, energy_year) ==
    IF energy_year = 0
    THEN (IF goal_year = 0 THEN NaN ELSE Inf)
    ELSE Fin(((goal_year + energy_year - 1) \div energy_year) * 1000)

\* (goal_year / energy_year).round(): the quotient of two finite numbers,
\* rounded to the nearest whole number; x/0 is inf and 0/0 is NaN.
num_pv_of(goal_year, energy_year) ==
    IF energy_year = 0
    THEN (IF goal_year = 0 THEN NaN ELSE Inf)
    ELSE Fin(ExactRound(goal_year, energy_year) * 1000)

\* num_pv * energy_year.
FTimes(a, y) ==
    CASE a.k = "fin" -> Fin((a.x \div 1000) * y + ((a.x % 1000) * y) \div 1000)
      [] a.k = "inf" -> IF y = 0 THEN NaN ELSE Inf
      [] OTHER       -> NaN

\* a / goal_year, goal_year a finite number.
FOver(a, y) ==
    CASE a.k = "fin" -> IF y = 0 THEN (IF a.x = 0 THEN NaN ELSE Inf)
                        ELSE Fin((a.x * 1000) \div y)
      [] a.k = "inf" -> Inf
      [] OTHER       -> NaN

\* a.round(2) and a * 100; NaN and inf stay what they are.
FRound2(a) == IF a.k = "fin" THEN Fin(Round2(a.x)) ELSE a
FTimes100(a) == IF a.k = "fin" THEN Fin(a.x * 100) ELSE a

\* percen_of taken from the rounded covered energy.
percen_of_rounded(num_pv, energy_year, goal_year) ==
    FTimes100(FOver(FRound2(FTimes(num_pv, energy_year)), goal_year))

\* percen = ((num_pv*energy_year)/goal_year)*100
percen_of(num_pv, energy_year, goal_year) ==
    FTimes100(FOver(FTimes(num_pv, energy_year), goal_year))

\* goal_year arrives in kWh (a whole number of them).
modules(ac_power, goal_year) ==
    LET hourly         == HourlyMean(ac_power, "ac_power")
        ac_power_hour  == Div1000(hourly)
        energy_monthly == MonthlySum(ac_power_hour)
        energy_year    == SumFn(ac_power_hour.v, ac_power_hour.lo, ac_power_hour.hi)
        num_pv         == num_pv_of(goal_year * 1000, energy_year)
        pvno_energy_year == FRound2(FTimes(num_pv, energy_year))
        percen         == percen_of(num_pv, energy_year, goal_year * 1000)
    IN  [num_pv |-> num_pv, pvno_energy_year |-> pvno_energy_year, percen |-> percen,
         energy_year |-> energy_year, energy_monthly |-> energy_monthly]

\* --------------------------------------------------- pvgen_demand_bimonth
bimestres ==
    << "Ene-Feb", "Ene-Feb", "Mar-Abr", "Mar-Abr", "May-Jun", "May-Jun",
       "Jul-Ago", "Jul-Ago", "Sep-Oct", "Sep-Oct", "Nov-Dic", "Nov-Dic" >>
orden_bimestres == << "Ene-Feb", "Mar-Abr", "May-Jun", "Jul-Ago", "Sep-Oct", "Nov-Dic" >>

\* energy_bimon_df.groupby(level=0).sum() at one label: the sum of the entries
\* of the series, taken by position, that carry the label.
gen_bimon(energy_monthly, label) ==
    LET at == {i \in 1..Len(bimestres) : bimestres[i] = label}
        e  == [i \in at |-> energy_monthly.v[energy_monthly.lo + i - 1]] @@ <<>>
    IN  SumIn(e, at, 1, Len(bimestres))

\* The bars of the figure, or the ValueError of pandas when the twelve labels
\* are set as the index of a series of another length.
pvgen_demand_bimonth(goal_bimonth, num_pv, energy_monthly) ==
    IF energy_monthly.hi - energy_monthly.lo + 1 # Len(bimestres)
       \/ Len(goal_bimonth) # Len(orden_bimestres)
    THEN [status |-> "ValueError"]
    ELSE [status     |-> "ok",
          x          |-> orden_bimestres,
          generation |-> [k \in 1..Len(orden_bimestres) |->
                            FRound2(FTimes(num_pv,
                                gen_bimon(energy_monthly, orden_bimestres[k])))],
          demand     |-> goal_bimonth]

\* ------------------------------------------------------- single-day views
\* series.loc[str(set_date) : str(set_date + 1 day)] of an hourly series: the
\* bins from midnight to the next midnight, both included, that the series has.
DaySlice(hourly, set_date) ==
    LET lo == Max(hourly.lo, set_date * HoursPerDay)
        hi == Min(hourly.hi, (set_date + 1) * HoursPerDay)
    IN  [lo |-> lo, hi |-> hi,
         v  |-> [b \in {c \in DOMAIN hourly.v : c >= lo /\ c <= hi} |-> hourly.v[b]] @@ <<>>]

IsEmpty(series) == series.lo > series.hi

poa_visual(t, irradiance, set_date) ==
    [status |-> "ok",
     traces |-> << RoundSeries2(DaySlice(HourlyMean(t, "ghi"), set_date)),
                   DaySlice(HourlyMean(t, "dni"), set_date),
                   DaySlice(HourlyMean(t, "dhi"), set_date),
                   DaySlice(HourlyMean(irradiance, "poa_global"), set_date),
                   DaySlice(HourlyMean(irradiance, "poa_direct"), set_date),
                   DaySlice(HourlyMean(irradiance, "poa_diffuse"), set_date) >>]

power_setdate(ac_power, set_date) ==
    [status |-> "ok",
     traces |-> << DaySlice(HourlyMean(ac_power, "ac_power"), set_date) >>]

\* series.idxmax(): the first bin holding the largest value (NaN skipped).
idxmax(series) ==
    CHOOSE b \in DOMAIN series.v :
        /\ \A c \in DOMAIN series.v : series.v[c] <= series.v[b]
        /\ \A c \in DOMAIN series.v : series.v[c] = series.v[b] => b <= c

\* idxmax raises ValueError on an empty series; on a slice holding only NaN it
\* gives NaN, and the lines drawn from it have no place (NaT).
hsp_visual(df_hsp, irradiance, set_date) ==
    LET hsp_year == df_hsp.cell[2][Len(df_hsp.columns)]
        ghi_poa  == DaySlice(HourlyMean(irradiance, "poa_global"), set_date)
    IN  IF IsEmpty(ghi_poa) THEN [status |-> "ValueError"]
        ELSE IF DOMAIN ghi_poa.v = {}
        THEN [status |-> "ok", traces |-> <<ghi_poa>>, hsp_year |-> hsp_year,
              shape |-> "NaT"]
        ELSE [status |-> "ok", traces |-> <<ghi_poa>>, hsp_year |-> hsp_year,
              shape |-> [start_time |-> idxmax(ghi_poa) * 1000 - hsp_year \div 2,
                         end_time   |-> idxmax(ghi_poa) * 1000 + hsp_year \div 2]]

\* ------------------------------------------------------------ the session
TiltInputs ==
    { [v |-> 194, float |-> TRUE], TiltInt(15), TiltInt(0), TiltInt(75),
      [v |-> 150, float |-> TRUE] }

\* 2024-03-01, the date the page opens with, and a day after the year's end.
DefaultDate == 2 * DaysPerMonth
InputChoices ==
    [tilt           |-> TiltInputs,
     azimuth        |-> {1800, 900},
     model_pv       |-> {"Longi 450W Mono", "no such module"},
     assembly       |-> {"Modulo monocristalino/policristalino en rack abierto",
                         "Modulo vidrio-vidrio montado sobre techo", "no such assembly"},
     inverter_model |-> {"Inversor A (96%)", "no such inverter"},
     consume_type   |-> {"Anual", "Bimestral"},
     goal_year      |-> {1000, 0, 1},
     set_date       |-> {DefaultDate, DaysPerYear}]

DefaultInput ==
    [tilt           |-> [v |-> Site.lat, float |-> TRUE],
     azimuth        |-> 1800,
     model_pv       |-> "Longi 450W Mono",
     assembly       |-> "Modulo monocristalino/policristalino en rack abierto",
     inverter_model |-> "Inversor A (96%)",
     consume_type   |-> "Anual",
     goal_year      |-> 1000,
     set_date       |-> DefaultDate]

bimonth_input == <<200, 220, 250, 290, 180, 300>>

energy_goal(in) ==
    IF in.consume_type = "Anual" THEN in.goal_year ELSE SumSeq(bimonth_input)

None == [status |-> "none"]

\* calcs(): the catalog lookups, then the three stages.  The value is the
\* pair of what calcs returns (or raises) and the stages that were invoked.
calcs(t, in) ==
    IF in.model_pv \notin DOMAIN modules_pv
       \/ in.assembly \notin DOMAIN assembly_options
       \/ in.inverter_model \notin DOMAIN inverters
    THEN [result |-> [status |-> "KeyError"], stages |-> <<>>]
    ELSE
    LET pdc0       == modules_pv[in.model_pv].pdc0
        gamma_pdc  == modules_pv[in.model_pv].gamma_pdc
        assembly   == assembly_options[in.assembly]
        inv_eff    == inverters[in.inverter_model]
        goal_year  == energy_goal(in)
        irradiance == irradiance_poa(t, Site.lat, Site.lon, in.tilt.v, in.azimuth)
        power      == power_calc(t, irradiance, assembly, pdc0, gamma_pdc, inv_eff)
    IN  IF power.status # "ok"
        THEN [result |-> power, stages |-> <<"irradiance_poa", "power_calc">>]
        ELSE LET m == modules(power.ac_power, goal_year)
             IN  [result |-> [status |-> "ok", irradiance |-> power.irradiance,
                              ac_power |-> power.ac_power,
                              df_poa_power |-> power.df_poa_power,
                              num_pv |-> m.num_pv,
                              pvno_energy_year |-> m.pvno_energy_year,
                              percen |-> m.percen, energy_year |-> m.energy_year,
                              energy_monthly |-> m.energy_monthly],
                  stages |-> <<"irradiance_poa", "power_calc", "modules">>]

VARIABLES
    df,          \* the weather table, loaded when the module is imported
    input,       \* the values of the page's inputs
    edits,       \* how many times an input was changed
    calcs_cache, \* the value (or error) calcs() holds until an input changes
    ran,         \* the stages the last run of calcs() invoked
    out          \* the last output rendered: its handler and its value
vars == <<df, input, edits, calcs_cache, ran, out>>

Init ==
    /\ df \in WeatherTables
    /\ input = DefaultInput
    /\ edits = 0
    /\ calcs_cache = None
    /\ ran = <<>>
    /\ out = [handler |-> "none", value |-> None]

\* The user changes one input; what depends on it is invalidated.
SetInput(f, val) ==
    /\ edits < MaxEdits
    /\ val # input[f]
    /\ input' = [input EXCEPT ![f] = val]
    /\ edits' = edits + 1
    /\ calcs_cache' = IF f = "set_date" THEN calcs_cache ELSE None
    /\ out' = [handler |-> "none", value |-> None]
    /\ UNCHANGED <<df, ran>>

\* calcs() as a handler reads it: run if nothing is held, else the held value.
Run == IF calcs_cache = None THEN calcs(df, input)
       ELSE [result |-> calcs_cache, stages |-> ran]

UseCalcs(c) ==
    /\ calcs_cache' = c.result
    /\ ran' = c.stages

graph_irradiances ==
    LET c == Run
    IN  /\ UseCalcs(c)
        /\ out' = [handler |-> "graph_irradiances",
                   value |-> IF c.result.status # "ok" THEN [status |-> c.result.status]
                             ELSE poa_visual(df, c.result.irradiance, input.set_date)]
        /\ UNCHANGED <<df, input, edits>>

graph_ac_power ==
    LET c == Run
    IN  /\ UseCalcs(c)
        /\ out' = [handler |-> "graph_ac_power",
                   value |-> IF c.result.status # "ok" THEN [status |-> c.result.status]
                             ELSE power_setdate(c.result.ac_power, input.set_date)]
        /\ UNCHANGED <<df, input, edits>>

graph_hsp ==
    LET df_hsp == hsp_calc(df, Site.lat, Site.lon, input.tilt, input.azimuth)
        c == Run
    IN  /\ UseCalcs(c)
        /\ out' = [handler |-> "graph_hsp",
                   value |-> IF c.result.status # "ok" THEN [status |-> c.result.status]
                             ELSE hsp_visual(df_hsp, c.result.irradiance, input.set_date)]
        /\ UNCHANGED <<df, input, edits>>

table_hsp ==
    /\ out' = [handler |-> "table_hsp",
               value |-> [status |-> "ok",
                          table |-> hsp_calc(df, Site.lat, Site.lon, input.tilt, input.azimuth)]]
    /\ UNCHANGED <<df, input, edits, calcs_cache, ran>>

\* The widget sits in the panel shown while consume_type is "Bimestral".
graph_energy_bimonth ==
    /\ input.consume_type = "Bimestral"
    /\ LET c == Run
       IN  /\ UseCalcs(c)
           /\ out' = [handler |-> "graph_energy_bimonth",
                      value |-> IF c.result.status # "ok" THEN [status |-> c.result.status]
                                ELSE pvgen_demand_bimonth(bimonth_input, c.result.num_pv,
                                                          c.result.energy_monthly)]
    /\ UNCHANGED <<df, input, edits>>

Next ==
    \/ \E f \in DOMAIN InputChoices : \E val \in InputChoices[f] : SetInput(f, val)
    \/ graph_irradiances
    \/ graph_ac_power
    \/ graph_hsp
    \/ table_hsp
    \/ graph_energy_bimonth

Spec == Init /\ [][Next]_vars

\* ================================================================ claims
CalcsOk == calcs_cache.status = "ok"
Goal == energy_goal(input) * 1000
HspTable == out.value.table
HspRendered == out.handler = "table_hsp"

\* C1: for a demand goal > 0 and an annual energy per module > 0, module_count
\* is demand_goal / annual_energy_per_module rounded to the nearest whole number
\* (not the ceiling): it is whole and lies within half a module of the quotient;
\* a demand of 1200 with an annual energy of 300.7 gives 4.
C1_NearestInteger ==
    /\ (CalcsOk /\ Goal > 0 /\ calcs_cache.energy_year > 0) =>
          /\ calcs_cache.num_pv.k = "fin"
          /\ calcs_cache.num_pv.x % 1000 = 0
          /\ 2 * Abs((calcs_cache.num_pv.x \div 1000) * calcs_cache.energy_year - Goal)
                <= calcs_cache.energy_year
    /\ num_pv_of(1200000, 300700) = Fin(4000)

\* C1's case: the quotient was rounded down, and the modules cover less than
\* the goal.
C1_Witness ==
    /\ CalcsOk /\ Goal > 0 /\ calcs_cache.energy_year > 0
    /\ calcs_cache.num_pv.k = "fin" /\ calcs_cache.num_pv.x > 0
    /\ (calcs_cache.num_pv.x \div 1000) * calcs_cache.energy_year < Goal

\* C2 as the claim states it: covered_energy is module_count * annual energy
\* rounded to 2 decimals, and coverage_percent is that rounded covered_energy
\* divided by the demand goal, times 100.
C2_Original ==
    (CalcsOk /\ Goal > 0) =>
       /\ calcs_cache.pvno_energy_year
            = FRound2(FTimes(calcs_cache.num_pv, calcs_cache.energy_year))
       /\ calcs_cache.percen = FTimes100(FOver(calcs_cache.pvno_energy_year, Goal))

\* C2 amended: covered_energy is module_count * annual energy rounded to 2
\* decimals, and coverage_percent is the unrounded product module_count *
\* annual energy divided by the demand goal, times 100.
C2_Amended ==
    (CalcsOk /\ Goal > 0) =>
       /\ calcs_cache.pvno_energy_year
            = FRound2(FTimes(calcs_cache.num_pv, calcs_cache.energy_year))
       /\ calcs_cache.percen
            = FTimes100(FOver(FTimes(calcs_cache.num_pv, calcs_cache.energy_year), Goal))

\* C2's case: the rounding to 2 decimals changed the covered energy, and the
\* percentage of the rounded value is another one.
C2_Witness ==
    /\ CalcsOk /\ Goal > 0
    /\ calcs_cache.pvno_energy_year # FTimes(calcs_cache.num_pv, calcs_cache.energy_year)
    /\ calcs_cache.percen # FTimes100(FOver(calcs_cache.pvno_energy_year, Goal))

\* C3: modules(ac_power, 0) ends in an error: calcs never holds a result that
\* modules computed for a demand goal of zero (whose percentage is NaN).
C3_ZeroDemandRejected ==
    (Goal = 0 /\ Len(ran) = 3) => ~CalcsOk

\* C4: the table of hsp_calc has one row per entry of [0, t, t-15, t+15, 90],
\* in that order, five rows also when entries coincide.
C4_FiveRows ==
    HspRendered =>
        HspTable.index = [i \in 1..5 |-> Label(tilts(input.tilt)[i])]

\* C5: the annual energy per module is the sum of the monthly energies: the
\* grouping of the hourly means by month loses and double-counts no hour.
C5_MonthsSumToYear ==
    CalcsOk =>
        SumFn(calcs_cache.energy_monthly.v, calcs_cache.energy_monthly.lo,
              calcs_cache.energy_monthly.hi) = calcs_cache.energy_year

\* C5's case: energy was produced in more than one month.
C5_Witness ==
    /\ CalcsOk
    /\ calcs_cache.energy_year > 0
    /\ \E m \in DOMAIN calcs_cache.energy_monthly.v :
          /\ calcs_cache.energy_monthly.v[m] > 0
          /\ calcs_cache.energy_monthly.v[m] < calcs_cache.energy_year

\* The days and months of the weather table that hold a record.
RecordDays == {DayBin(HourBin(ts)) : ts \in DOMAIN df.row}
RecordMonths == {MonthBin(d) : d \in RecordDays}

\* The mean over the days of month m that hold a record of the daily HSP at a
\* tilt, rounded to 2 decimals.
MeanOverRecordDays(tilt, m) ==
    LET hsp_d == Div1000(DailySum(HourlyMean(
                     irradiance_poa(df, Site.lat, Site.lon, tilt, input.azimuth),
                     "poa_global")))
        days  == {d \in RecordDays : MonthBin(d) = m}
        first == CHOOSE d \in days : \A e \in days : d <= e
        last  == CHOOSE d \in days : \A e \in days : d >= e
    IN  Round2(SumFn([d \in days |-> hsp_d.v[d]], first, last) \div Cardinality(days))

\* C6: the month columns of the table are the months that hold a record, in
\* order, and a cell is the mean over the days that hold a record: no day or
\* month without records is counted as zero.
C6_OnlyMonthsWithRecords ==
    HspRendered =>
        /\ Len(HspTable.columns) = Cardinality(RecordMonths) + 1
        /\ \A j \in 1..(Len(HspTable.columns) - 1) :
              \E m \in RecordMonths :
                 /\ HspTable.columns[j] = MonthNames[m + 1]
                 /\ Cardinality({k \in RecordMonths : k < m}) = j - 1
                 /\ \A i \in 1..Len(HspTable.index) :
                       HspTable.cell[i][j] = MeanOverRecordDays(HspTable.index[i][1], m)

\* The daily HSP at a tilt, and whether the plane's global irradiance stays
\* within 0..1000 W/m2 there.
DailyHsp(tilt) ==
    Div1000(DailySum(HourlyMean(
        irradiance_poa(df, Site.lat, Site.lon, tilt, input.azimuth), "poa_global")))
PoaWithin1000(tilt) ==
    LET irradiance == irradiance_poa(df, Site.lat, Site.lon, tilt, input.azimuth)
    IN  \A ts \in DOMAIN irradiance.row :
            irradiance.row[ts].poa_global >= 0 /\ irradiance.row[ts].poa_global <= 1000000
NonNegativeWeather ==
    \A ts \in DOMAIN df.row :
        df.row[ts].ghi >= 0 /\ df.row[ts].dni >= 0 /\ df.row[ts].dhi >= 0

\* C7 as the claim states it: with non-negative irradiance, every daily HSP of
\* the tilt=0 row is at most 24, and every monthly cell and the Average of
\* every row lie in [0, 24].
C7_Original ==
    (HspRendered /\ NonNegativeWeather) =>
        /\ LET hsp_d == DailyHsp(0).v
           IN  \A d \in DOMAIN hsp_d : hsp_d[d] <= 24000
        /\ \A i \in 1..Len(HspTable.index) : \A j \in 1..Len(HspTable.columns) :
              HspTable.cell[i][j] >= 0 /\ HspTable.cell[i][j] <= 24000

\* C7 amended: with non-negative irradiance, for every row whose plane receives
\* a global irradiance of at most 1000 W/m2 in every record, every daily HSP of
\* the row is at most 24, and every monthly cell and the Average of the row lie
\* in [0, 24].
C7_Amended ==
    (HspRendered /\ NonNegativeWeather) =>
        \A i \in 1..Len(HspTable.index) :
            PoaWithin1000(HspTable.index[i][1]) =>
               /\ LET hsp_d == DailyHsp(HspTable.index[i][1]).v
                  IN  \A d \in DOMAIN hsp_d : hsp_d[d] <= 24000
               /\ \A j \in 1..Len(HspTable.columns) :
                     HspTable.cell[i][j] >= 0 /\ HspTable.cell[i][j] <= 24000

\* C7's case: a flat plane under 1000 W/m2 around the clock: 24 hours exactly.
C7_Witness ==
    /\ HspRendered /\ NonNegativeWeather
    /\ PoaWithin1000(0)
    /\ HspTable.index[1] = Label(TiltInt(0))
    /\ HspTable.cell[1][1] = 24000

\* C8: when calcs ends in the error of a key that is in no catalog, no stage of
\* the pipeline was invoked.
C8_KeyErrorBeforeStages ==
    calcs_cache.status = "KeyError" => ran = <<>>

\* The reference date selects no row of the hourly series of the table.
NoRowsSelected ==
    \/ input.set_date * HoursPerDay > HourBin(df.hi)
    \/ (input.set_date + 1) * HoursPerDay < HourBin(df.lo)

\* C9: when the reference date selects no rows, each single-day view ends in
\* an error instead of a figure with empty traces.
C9_NoDataError ==
    (/\ out.handler \in {"graph_irradiances", "graph_ac_power", "graph_hsp"}
     /\ CalcsOk
     /\ NoRowsSelected) => out.value.status # "ok"

\* C11: no step changes the weather table, and the POA irradiance table that
\* calcs holds after power_calc is the table irradiance_poa returned: same
\* index, same three columns, same values, no ac_power column.
C11_TablesUnchanged ==
    [][/\ df' = df
       /\ calcs_cache'.status = "ok" =>
             calcs_cache'.irradiance
                = irradiance_poa(df', Site.lat, Site.lon, input'.tilt.v, input'.azimuth)]_vars

\* C11's case: power_calc has delivered a table with an ac_power column and a
\* single-day view has drawn from the irradiance table.
C11_Witness ==
    /\ CalcsOk
    /\ out.handler \in {"graph_irradiances", "graph_hsp"} /\ out.value.status = "ok"
    /\ \E ts \in DOMAIN calcs_cache.df_poa_power.row :
          /\ calcs_cache.df_poa_power.row[ts].ac_power > 0
          /\ calcs_cache.df_poa_power.row[ts].poa_global
                = calcs_cache.irradiance.row[ts].poa_global
\* The energy of calendar month m (1 = January) in the series modules()
\* delivered; a month the series does not hold adds nothing.
MonthEnergy(m) ==
    IF (m - 1) \in DOMAIN calcs_cache.energy_monthly.v
    THEN calcs_cache.energy_monthly.v[m - 1] ELSE 0

\* C12: the figure of pvgen_demand_bimonth has, for each bucket k = 1..6 in the
\* order Jan-Feb .. Nov-Dec, the generation module_count * (energy of month
\* 2k-1 + energy of month 2k) (to 2 decimals) beside the k-th bimonthly
\* demand, whatever months the series delivered by modules() holds.
C12_BimonthBuckets ==
    (out.handler = "graph_energy_bimonth" /\ CalcsOk) =>
        /\ out.value.status = "ok"
        /\ out.value.x = orden_bimestres
        /\ \A k \in 1..6 :
              /\ out.value.generation[k]
                    = FRound2(FTimes(calcs_cache.num_pv,
                                     MonthEnergy(2 * k - 1) + MonthEnergy(2 * k)))
              /\ out.value.demand[k] = bimonth_input[k]
\* The Average of the row hsp_calc computes for the tilt the user entered.
UserTiltAverage ==
    LET own == hsp_frame(DictSet(<<>>, Label(input.tilt),
                   RoundSeries2(hsp_avg_m(df, Site.lat, Site.lon, input.tilt,
                                          input.azimuth))))
    IN  own.cell[1][Len(own.columns)]

\* C13: the annual-average HSP that hsp_visual draws is the Average of the row
\* of the user's own tilt, also when that tilt coincides with another entry of
\* the candidate list.
C13_OwnTiltRow ==
    (out.handler = "graph_hsp" /\ out.value.status = "ok") =>
        out.value.hsp_year = UserTiltAverage
====
